---- MODULE Spec2Model ----
(***************************************************************************)
(* Model of starcluster/awsutils.py: the EasyAWS lazily memoized           *)
(* connection, EasyEC2.get_registered_image, and the image-removal         *)
(* workflow EasyEC2.remove_image / remove_image_files / get_image_files,   *)
(* run against a remote compute registry and a remote object store.        *)
(***************************************************************************)
EXTENDS Integers, Sequences, FiniteSets, TLC

VARIABLES
    _conn,       \* EasyAWS._conn of the EasyEC2 object ("ec2") and of its s3 sub-object ("s3")
    authCalls,   \* how often each object's connection_authenticator has been invoked
    cache,       \* EasyEC2.cache
    _images,     \* EasyEC2._images
    images,      \* remote: the image records the compute API has registered
    store,       \* remote: the keys held by the bucket
    pc,          \* position of the running call
    op,          \* the public method that was called
    image_name,  \* its image_name / image_id argument
    pretend,     \* its pretend argument
    image,       \* local `image` of remove_image
    phase,       \* which get_image_files call of remove_image_files is running
    gif_image,   \* local `image` of get_image_files
    files,       \* local `files` of remove_image_files (last enumeration)
    todo,        \* rest of the `for file in files` iteration
    depth,       \* number of remove_image_files frames entered by this call
    verified,    \* result of the latest "recursive double check" enumeration
    result,      \* value the call returned
    error,       \* exception that ended the call, "none" otherwise
    calls,       \* remote API calls issued by this call, in order
    log          \* lines this call logged or printed, in order

vars == << _conn, authCalls, cache, _images, images, store, pc, op, image_name,
           pretend, image, phase, gif_image, files, todo, depth, verified,
           result, error, calls, log >>

remote   == << images, store >>
object   == << cache, _images >>
locals   == << image, phase, gif_image, files, todo, depth, verified >>
callArgs == << op, image_name, pretend >>

----------------------------------------------------------------------------
(* Bounds of the model *)

\* Stand-in for the interpreter's recursion limit: the deepest chain of
\* remove_image_files frames before the interpreter raises RuntimeError.
RecursionLimit == 3

----------------------------------------------------------------------------
(* Values *)

\* Python's None, where a record-valued object or nothing is held
None == [none |-> TRUE]

Objects == {"ec2", "s3"}

BucketName == "mybucket"

TargetImage == [id |-> "ami-12345678", location |-> "mybucket/img.manifest.xml"]

\* Identifiers a caller may pass: a registered one, a well-formed one that is
\* not registered, one with a wrong prefix, one too short, one too long.
ImageIds == {"ami-12345678", "ami-87654321", "emi-12345678", "ami-1234",
             "ami-123456789012"}

\* The keys the bucket can hold, in the order a listing returns them.
KeyOrder == << "img.part.0", "img.part.1", "other.part.0" >>

Keys == {KeyOrder[i] : i \in 1..Len(KeyOrder)}

Ops == {"remove_image", "remove_image_files", "get_registered_image"}

----------------------------------------------------------------------------
(* String helpers: str.startswith, str.split(sep)[0], os.path.basename *)

StartsWith(s, p) == Len(s) >= Len(p) /\ SubSeq(s, 1, Len(p)) = p

\* index of the first occurrence of sub in s, 0 when there is none
Find(s, sub) ==
    LET hits == {i \in 1..(Len(s) - Len(sub) + 1) : SubSeq(s, i, i + Len(sub) - 1) = sub}
    IN  IF hits = {} THEN 0 ELSE CHOOSE i \in hits : \A j \in hits : i <= j

\* s.split(sep)[0]
SplitFirst(s, sep) ==
    LET i == Find(s, sep) IN IF i = 0 THEN s ELSE SubSeq(s, 1, i - 1)

\* os.path.basename(s)
Basename(s) ==
    LET slashes == {i \in 1..Len(s) : SubSeq(s, i, i) = "/"}
    IN  IF slashes = {} THEN s
        ELSE LET last == CHOOSE i \in slashes : \A j \in slashes : j <= i
             IN  SubSeq(s, last + 1, Len(s))

\* image.location.split('/')[0]
BucketOf(img) == SplitFirst(img.location, "/")

\* os.path.basename(image.location).split('.manifest.xml')[0]
PrefixOf(img) == SplitFirst(Basename(img.location), ".manifest.xml")

\* bucket.list(prefix=...), materialised as a list
ListKeys(prefix) ==
    SelectSeq(KeyOrder, LAMBDA k : k \in store /\ StartsWith(k, prefix))

----------------------------------------------------------------------------
(* EasyAWS *)

\* Faulty variant of ConnAccess: the `is None` test is lost, every access
\* authenticates again.
ConnAccess_NoMemo(o) ==
    /\ _conn' = [_conn EXCEPT ![o] = [api |-> o, serial |-> authCalls[o] + 1]]
    /\ authCalls' = [authCalls EXCEPT ![o] = @ + 1]

\* EasyAWS.conn: the authenticator runs only while _conn is None
ConnAccess(o) ==
    IF _conn[o] = None
    THEN /\ _conn' = [_conn EXCEPT ![o] = [api |-> o, serial |-> authCalls[o] + 1]]
         /\ authCalls' = [authCalls EXCEPT ![o] = @ + 1]
    ELSE UNCHANGED << _conn, authCalls >>

\* the "connect" entry a first access adds to the calls of the running call
Connecting(o) == IF _conn[o] = None THEN << << "connect", o >> >> ELSE << >>

\* EasyAWS.__init__, EasyEC2.__init__, EasyS3.__init__; the remote side and
\* the cache flag are whatever the caller finds and chooses
Init ==
    /\ _conn = [o \in Objects |-> None]
    /\ authCalls = [o \in Objects |-> 0]
    /\ cache \in BOOLEAN
    /\ _images = None
    /\ images \in {{}, {TargetImage}}
    /\ store \in SUBSET Keys
    /\ pc = "idle"
    /\ op = ""
    /\ image_name = ""
    /\ pretend = TRUE
    /\ image = None
    /\ phase = ""
    /\ gif_image = None
    /\ files = << >>
    /\ todo = << >>
    /\ depth = 0
    /\ verified = ""
    /\ result = None
    /\ error = "none"
    /\ calls = << >>
    /\ log = << >>

----------------------------------------------------------------------------
(* The remote compute API *)

\* What get_image(image_id) can produce: the first image of the answer, None
\* when the answer is empty (IndexError caught), or the remote error raised
\* by the call (Raise).
Raise == [raise |-> TRUE]

GetImageResults(id) ==
    LET found == {i \in images : i.id = id}
    IN  {Raise} \cup (IF found = {} THEN {None} ELSE found)

\* where control goes when the outermost remove_image_files frame returns
ReturnFromFiles == IF op = "remove_image" THEN "ri_deregister" ELSE "terminated"

----------------------------------------------------------------------------
(* A caller invokes one public method at a time *)

Call ==
    /\ pc = "idle"
    /\ \E o \in Ops, id \in ImageIds, p \in BOOLEAN :
          /\ (o = "get_registered_image") => p
          /\ op' = o
          /\ image_name' = id
          /\ pretend' = p
          /\ pc' = CASE o = "remove_image" -> "ri_get_image"
                     [] o = "remove_image_files" -> "rif_get_image"
                     [] o = "get_registered_image" -> "gri_check"
          /\ depth' = IF o = "remove_image_files" THEN 1 ELSE 0
    /\ UNCHANGED << _conn, authCalls, object, remote, image, phase, gif_image,
                    files, todo, verified, result, error, calls, log >>

\* the call is over; the object and the remote side stay as they are
Return ==
    /\ pc = "terminated"
    /\ pc' = "idle"
    /\ op' = ""
    /\ image_name' = ""
    /\ pretend' = TRUE
    /\ image' = None
    /\ phase' = ""
    /\ gif_image' = None
    /\ files' = << >>
    /\ todo' = << >>
    /\ depth' = 0
    /\ verified' = ""
    /\ result' = None
    /\ error' = "none"
    /\ calls' = << >>
    /\ log' = << >>
    /\ UNCHANGED << _conn, authCalls, object, remote >>

\* another party deregisters the image
EnvDeregister ==
    /\ images # {}
    /\ images' = {}
    /\ UNCHANGED << _conn, authCalls, object, store, pc, callArgs, locals,
                    result, error, calls, log >>

----------------------------------------------------------------------------
(* EasyEC2.remove_image *)

\* Faulty variant of RI_GetImage: the `image is None` test is lost.
RI_GetImage_NoCheck ==
    /\ pc = "ri_get_image"
    /\ ConnAccess("ec2")
    /\ calls' = calls \o Connecting("ec2") \o << << "get_all_images", image_name >> >>
    /\ \E r \in GetImageResults(image_name) :
          CASE r = Raise ->
                 /\ error' = "EC2ResponseError"
                 /\ pc' = "terminated"
                 /\ UNCHANGED << image, log >>
            [] OTHER ->
                 /\ image' = r
                 /\ pc' = "ri_log"
                 /\ UNCHANGED << error, log >>
    /\ UNCHANGED << object, remote, callArgs, phase, gif_image, files, todo,
                    depth, verified, result >>

\* image = self.get_image(image_name); if image is None: log.error; return
RI_GetImage ==
    /\ pc = "ri_get_image"
    /\ ConnAccess("ec2")
    /\ calls' = calls \o Connecting("ec2") \o << << "get_all_images", image_name >> >>
    /\ \E r \in GetImageResults(image_name) :
          CASE r = Raise ->
                 /\ error' = "EC2ResponseError"
                 /\ pc' = "terminated"
                 /\ UNCHANGED << image, log >>
            [] r = None ->
                 /\ image' = None
                 /\ log' = Append(log, << "error", "does not exist", image_name >>)
                 /\ pc' = "terminated"
                 /\ UNCHANGED error
            [] OTHER ->
                 /\ image' = r
                 /\ pc' = "ri_log"
                 /\ UNCHANGED << error, log >>
    /\ UNCHANGED << object, remote, callArgs, phase, gif_image, files, todo,
                    depth, verified, result >>

\* the pretend branch formats its message with the undefined name `imageid`;
\* the other branch logs and calls remove_image_files
RI_Log ==
    /\ pc = "ri_log"
    /\ IF pretend
       THEN /\ error' = "NameError"
            /\ pc' = "terminated"
            /\ UNCHANGED << log, depth >>
       ELSE /\ log' = log \o << << "info", "Removing AMI", image_name >>,
                               << "info", "Removing image files", image_name >> >>
            /\ depth' = 1
            /\ pc' = "rif_get_image"
            /\ UNCHANGED error
    /\ UNCHANGED << _conn, authCalls, object, remote, callArgs, image, phase,
                    gif_image, files, todo, verified, result, calls >>

\* ami = image.id; then log only (pretend) or self.conn.deregister_image(ami)
RI_Deregister ==
    /\ pc = "ri_deregister"
    /\ pc' = "terminated"
    /\ IF image = None
       THEN /\ error' = "AttributeError"
            /\ UNCHANGED << _conn, authCalls, images, calls, log >>
       ELSE IF pretend
       THEN /\ log' = Append(log, << "info", "Would run deregister_image", image.id >>)
            /\ UNCHANGED << _conn, authCalls, images, calls, error >>
       ELSE /\ log' = Append(log, << "info", "Deregistering ami", image.id >>)
            /\ ConnAccess("ec2")
            /\ calls' = calls \o Connecting("ec2") \o << << "deregister_image", image.id >> >>
            /\ \/ /\ \E i \in images : i.id = image.id
                  /\ images' = {i \in images : i.id # image.id}
                  /\ UNCHANGED error
               \/ /\ error' = "EC2ResponseError"
                  /\ UNCHANGED images
    /\ UNCHANGED << object, store, callArgs, locals, result >>

----------------------------------------------------------------------------
(* EasyEC2.remove_image_files *)

\* image = self.get_image(image_name); if image is None: log.error; return
RIF_GetImage ==
    /\ pc = "rif_get_image"
    /\ ConnAccess("ec2")
    /\ calls' = calls \o Connecting("ec2") \o << << "get_all_images", image_name >> >>
    /\ \E r \in GetImageResults(image_name) :
          CASE r = Raise ->
                 /\ error' = "EC2ResponseError"
                 /\ pc' = "terminated"
                 /\ UNCHANGED << phase, log >>
            [] r = None ->
                 /\ log' = Append(log, << "error", "cannot remove AMI", image_name >>)
                 /\ pc' = ReturnFromFiles
                 /\ UNCHANGED << phase, error >>
            [] OTHER ->
                 /\ phase' = "delete"
                 /\ pc' = "gif_get_image"
                 /\ UNCHANGED << error, log >>
    /\ UNCHANGED << object, remote, callArgs, image, gif_image, files, todo,
                    depth, verified, result >>

\* Faulty variant of RIF_File: the `if pretend` test is lost, every turn deletes.
RIF_File_IgnorePretend ==
    /\ pc = "rif_loop"
    /\ todo # << >>
    /\ todo' = Tail(todo)
    /\ log' = Append(log, << "print", "removing file", Head(todo) >>)
    /\ calls' = Append(calls, << "delete", Head(todo) >>)
    /\ \/ /\ store' = store \ {Head(todo)}
          /\ UNCHANGED << error, pc >>
       \/ /\ UNCHANGED << store, error, pc >>
       \/ /\ error' = "S3ResponseError"
          /\ pc' = "terminated"
          /\ UNCHANGED store
    /\ UNCHANGED << _conn, authCalls, object, images, callArgs, image, phase,
                    gif_image, files, depth, verified, result >>

\* Faulty variant of RIF_File: the image is deregistered as soon as a file has
\* been deleted, while files of the enumeration are still to be deleted.
RIF_File_DeregisterEarly ==
    /\ pc = "rif_loop"
    /\ todo # << >>
    /\ todo' = Tail(todo)
    /\ IF pretend
       THEN /\ log' = Append(log, << "print", "file", Head(todo) >>)
            /\ UNCHANGED << store, images, calls, error, pc >>
       ELSE /\ log' = Append(log, << "print", "removing file", Head(todo) >>)
            /\ calls' = calls \o << << "delete", Head(todo) >>,
                                    << "deregister_image", gif_image.id >> >>
            /\ images' = {i \in images : i.id # gif_image.id}
            /\ store' = store \ {Head(todo)}
            /\ UNCHANGED << error, pc >>
    /\ UNCHANGED << _conn, authCalls, object, callArgs, image, phase,
                    gif_image, files, depth, verified, result >>

\* one turn of `for file in files`: print the file, or delete it. A delete
\* removes the key, or is accepted while the key is still listed afterwards,
\* or raises and ends the call.
RIF_File ==
    /\ pc = "rif_loop"
    /\ todo # << >>
    /\ todo' = Tail(todo)
    /\ IF pretend
       THEN /\ log' = Append(log, << "print", "file", Head(todo) >>)
            /\ UNCHANGED << store, calls, error, pc >>
       ELSE /\ log' = Append(log, << "print", "removing file", Head(todo) >>)
            /\ calls' = Append(calls, << "delete", Head(todo) >>)
            /\ \/ /\ store' = store \ {Head(todo)}
                  /\ UNCHANGED << error, pc >>
               \/ /\ UNCHANGED << store, error, pc >>
               \/ /\ error' = "S3ResponseError"
                  /\ pc' = "terminated"
                  /\ UNCHANGED store
    /\ UNCHANGED << _conn, authCalls, object, images, callArgs, image, phase,
                    gif_image, files, depth, verified, result >>

\* the loop is over: "recursive double check", files = get_image_files(...)
RIF_LoopDone ==
    /\ pc = "rif_loop"
    /\ todo = << >>
    /\ phase' = "verify"
    /\ pc' = "gif_get_image"
    /\ UNCHANGED << _conn, authCalls, object, remote, callArgs, image,
                    gif_image, files, todo, depth, verified, result, error,
                    calls, log >>

\* Faulty variant of RIF_Check: residual files end the frame instead of
\* starting another pass.
RIF_Check_NoRecurse ==
    /\ pc = "rif_check"
    /\ pc' = ReturnFromFiles
    /\ log' = IF Len(files) # 0
              THEN Append(log, << "info", "would recurse...exiting", image_name >>)
              ELSE log
    /\ UNCHANGED << _conn, authCalls, object, remote, callArgs, locals, result,
                    error, calls >>

\* if len(files) != 0: return when pretending, recurse otherwise; a frame has
\* nothing left to do once the frame it called returns
RIF_Check ==
    /\ pc = "rif_check"
    /\ IF Len(files) # 0
       THEN IF pretend
            THEN /\ log' = Append(log, << "info", "would recurse...exiting", image_name >>)
                 /\ pc' = ReturnFromFiles
                 /\ UNCHANGED << depth, error >>
            ELSE /\ log' = Append(log, << "info", "recursing", image_name >>)
                 /\ IF depth < RecursionLimit
                    THEN /\ depth' = depth + 1
                         /\ pc' = "rif_get_image"
                         /\ UNCHANGED error
                    ELSE /\ error' = "RuntimeError"
                         /\ pc' = "terminated"
                         /\ UNCHANGED depth
       ELSE /\ pc' = ReturnFromFiles
            /\ UNCHANGED << depth, error, log >>
    /\ UNCHANGED << _conn, authCalls, object, remote, callArgs, image, phase,
                    gif_image, files, todo, verified, result, calls >>

----------------------------------------------------------------------------
(* EasyEC2.get_image_files *)

\* image = self.get_image(image_id); bucketname = image.location.split('/')[0]
GIF_GetImage ==
    /\ pc = "gif_get_image"
    /\ ConnAccess("ec2")
    /\ calls' = calls \o Connecting("ec2") \o << << "get_all_images", image_name >> >>
    /\ \E r \in GetImageResults(image_name) :
          CASE r = Raise ->
                 /\ error' = "EC2ResponseError"
                 /\ pc' = "terminated"
                 /\ UNCHANGED gif_image
            [] r = None ->
                 /\ error' = "AttributeError"
                 /\ pc' = "terminated"
                 /\ gif_image' = None
            [] OTHER ->
                 /\ gif_image' = r
                 /\ pc' = "gif_get_bucket"
                 /\ UNCHANGED error
    /\ UNCHANGED << object, remote, callArgs, image, phase, files, todo, depth,
                    verified, result, log >>

\* bucket = self.s3.get_bucket(bucketname)
GIF_GetBucket ==
    /\ pc = "gif_get_bucket"
    /\ ConnAccess("s3")
    /\ calls' = calls \o Connecting("s3") \o << << "get_bucket", BucketOf(gif_image) >> >>
    /\ \/ /\ BucketOf(gif_image) = BucketName
          /\ pc' = "gif_list"
          /\ UNCHANGED error
       \/ /\ error' = "S3ResponseError"
          /\ pc' = "terminated"
    /\ UNCHANGED << object, remote, callArgs, locals, result, log >>

\* files = [file for file in bucket.list(prefix=...)]; return files
GIF_List ==
    /\ pc = "gif_list"
    /\ calls' = Append(calls, << "list", PrefixOf(gif_image) >>)
    /\ \/ /\ files' = ListKeys(PrefixOf(gif_image))
          /\ IF phase = "delete"
             THEN /\ todo' = files'
                  /\ pc' = "rif_loop"
                  /\ UNCHANGED verified
             ELSE /\ verified' = IF files' = << >> THEN "empty" ELSE "residual"
                  /\ pc' = "rif_check"
                  /\ UNCHANGED todo
          /\ UNCHANGED error
       \/ /\ error' = "S3ResponseError"
          /\ pc' = "terminated"
          /\ UNCHANGED << files, todo, verified >>
    /\ UNCHANGED << _conn, authCalls, object, remote, callArgs, image, phase,
                    gif_image, depth, result, log >>

----------------------------------------------------------------------------
(* EasyEC2.get_registered_image *)

\* Faulty variant of GRI_Check: the length test is lost.
GRI_Check_PrefixOnly ==
    /\ pc = "gri_check"
    /\ IF ~StartsWith(image_name, "ami")
       THEN /\ error' = "TypeError"
            /\ pc' = "terminated"
       ELSE /\ pc' = "gri_images"
            /\ UNCHANGED error
    /\ UNCHANGED << _conn, authCalls, object, remote, callArgs, locals, result,
                    calls, log >>

\* if not image_id.startswith('ami') or len(image_id) != 12: raise TypeError
GRI_Check ==
    /\ pc = "gri_check"
    /\ IF ~StartsWith(image_name, "ami") \/ Len(image_name) # 12
       THEN /\ error' = "TypeError"
            /\ pc' = "terminated"
       ELSE /\ pc' = "gri_images"
            /\ UNCHANGED error
    /\ UNCHANGED << _conn, authCalls, object, remote, callArgs, locals, result,
                    calls, log >>

\* for image in self.registered_images: if image.id == image_id: return image
\* (registered_images asks the compute API unless a listing is cached)
GRI_Images ==
    /\ pc = "gri_images"
    /\ pc' = "terminated"
    /\ IF ~cache \/ _images = None
       THEN /\ ConnAccess("ec2")
            /\ calls' = calls \o Connecting("ec2") \o << << "get_all_images", "self" >> >>
            /\ \/ /\ _images' = [list |-> images]
                  /\ result' = IF \E i \in images : i.id = image_name
                               THEN CHOOSE i \in images : i.id = image_name
                               ELSE None
                  /\ UNCHANGED error
               \/ /\ error' = "EC2ResponseError"
                  /\ UNCHANGED << _images, result >>
       ELSE /\ result' = IF \E i \in _images.list : i.id = image_name
                         THEN CHOOSE i \in _images.list : i.id = image_name
                         ELSE None
            /\ UNCHANGED << _conn, authCalls, _images, calls, error >>
    /\ UNCHANGED << cache, remote, callArgs, locals, log >>

----------------------------------------------------------------------------

Next ==
    \/ Call
    \/ Return
    \/ EnvDeregister
    \/ RI_GetImage
    \/ RI_Log
    \/ RI_Deregister
    \/ RIF_GetImage
    \/ RIF_File
    \/ RIF_LoopDone
    \/ RIF_Check
    \/ GIF_GetImage
    \/ GIF_GetBucket
    \/ GIF_List
    \/ GRI_Check
    \/ GRI_Images

Spec == Init /\ [][Next]_vars

----------------------------------------------------------------------------
(* Observations on the running call *)

Issued(name) == \E i \in 1..Len(calls) : calls[i][1] = name

Count(name) == Cardinality({i \in 1..Len(calls) : calls[i][1] = name})

Logged(text) == \E i \in 1..Len(log) : log[i][2] = text

Removing == op \in {"remove_image", "remove_image_files"}

\* every get_image of the file-removal passes found the image
Resolvable == image # None /\ ~Logged("cannot remove AMI") /\ error # "AttributeError"

\* a remote call raised
RemoteFailure == error \in {"EC2ResponseError", "S3ResponseError"}

\* the keys of the store that belong to the image the call resolved
BackingFiles == ListKeys(PrefixOf(image))

----------------------------------------------------------------------------
(* Properties *)

\* C1. Dry-run safety: a removal called with pretend = TRUE (remove_image, or
\* its file-removal step called directly) has issued no delete on a storage
\* object and no deregister_image, at any point of the call and however it ends.
C1_DryRunSafety ==
    (Removing /\ pretend) => (~Issued("delete") /\ ~Issued("deregister_image"))

\* a dry-run remove_image of a registered image that has backing files is over
C1_Witness ==
    /\ pc = "terminated"
    /\ op = "remove_image"
    /\ pretend
    /\ image # None
    /\ BackingFiles # << >>

\* C2. Ordering: in a remove_image(X, pretend = FALSE), no delete of a storage
\* object is issued after deregister_image, retries included.
C2_DeleteBeforeDeregister ==
    (op = "remove_image" /\ ~pretend) =>
        \A i, j \in 1..Len(calls) :
            (calls[i][1] = "deregister_image" /\ calls[j][1] = "delete") => j < i

\* deletes of a first pass and of a retry, then the deregistration
C2_Witness ==
    /\ op = "remove_image"
    /\ ~pretend
    /\ depth >= 2
    /\ Count("delete") >= 3
    /\ calls[Len(calls)][1] = "deregister_image"
    /\ error = "none"

\* C3. Recursion termination, as claimed: a remove_image(id, pretend = FALSE)
\* whose every verification found residual files, with the image resolvable
\* and no remote call failing, ends by reporting DeletionIncomplete.
C3_Claim_BoundedRetry ==
    ( /\ pc = "terminated"
      /\ op = "remove_image"
      /\ ~pretend
      /\ Resolvable
      /\ verified = "residual"
      /\ ~RemoteFailure )
    => error = "DeletionIncomplete"

\* C4. Best-effort deletion, as claimed: when a delete raised, the call does
\* not end while files of that enumeration are still waiting for their delete.
C4_Claim_BatchContinues ==
    ( /\ pc = "terminated"
      /\ Removing
      /\ ~pretend
      /\ error = "S3ResponseError"
      /\ calls[Len(calls)][1] = "delete" )
    => todo = << >>

\* C5. Image not found: once remove_image's lookup has answered with no image,
\* the call is over, the error "does not exist" is its only report, no
\* exception ended it, and it has asked for no bucket, no listing, no delete
\* and no deregistration.
C5_NotFoundAborts ==
    ( /\ op = "remove_image"
      /\ pc # "ri_get_image"
      /\ image = None
      /\ ~(error = "EC2ResponseError" /\ Count("get_all_images") = 1) )
    => ( /\ pc = "terminated"
         /\ error = "none"
         /\ log = << << "error", "does not exist", image_name >> >>
         /\ ~Issued("get_bucket")
         /\ ~Issued("list")
         /\ ~Issued("delete")
         /\ ~Issued("deregister_image") )

\* a real removal of an identifier that is not registered has ended that way
C5_Witness ==
    /\ pc = "terminated"
    /\ op = "remove_image"
    /\ ~pretend
    /\ image = None
    /\ Logged("does not exist")

\* C6. Dry run reaches the deregister report, as claimed: a dry-run
\* remove_image of a registered image without residual files, no remote call
\* failing, ends normally and its last report is the would-be deregistration
\* of the image's id.
C6_Claim_DryRunReports ==
    ( /\ pc = "terminated"
      /\ op = "remove_image"
      /\ pretend
      /\ image # None
      /\ BackingFiles = << >>
      /\ ~RemoteFailure )
    => ( /\ error = "none"
         /\ log # << >>
         /\ log[Len(log)] = << "info", "Would run deregister_image", image.id >> )

\* C7. Dry-run verification abort, as claimed: a dry-run remove_image of a
\* registered image whose files are still there, no remote call failing, has
\* entered remove_image_files exactly once and ends aborted, without the
\* deregister step.
C7_Claim_DryRunAborts ==
    ( /\ pc = "terminated"
      /\ op = "remove_image"
      /\ pretend
      /\ image # None
      /\ BackingFiles # << >>
      /\ ~RemoteFailure )
    => ( /\ depth = 1
         /\ error = "none"
         /\ Logged("would recurse...exiting")
         /\ ~Logged("Would run deregister_image") )

\* C8. Identifier shape: a get_registered_image of an identifier that does not
\* start with "ami" or is not 12 long never gets past the check, creates no
\* connection, asks for no listing, returns nothing and ends with TypeError,
\* whatever the cache flag and the cached listing.
C8_ShapeValidation ==
    ( /\ op = "get_registered_image"
      /\ (~StartsWith(image_name, "ami") \/ Len(image_name) # 12) )
    => ( /\ pc \in {"gri_check", "terminated"}
         /\ calls = << >>
         /\ result = None
         /\ (pc = "terminated" => error = "TypeError") )

\* an ill-formed identifier was refused with caching on and a listing cached
C8_Witness ==
    /\ pc = "terminated"
    /\ op = "get_registered_image"
    /\ ~StartsWith(image_name, "ami") \/ Len(image_name) # 12
    /\ error = "TypeError"
    /\ cache
    /\ _images # None

\* C9. Connection memoization: construction authenticates nothing; each
\* object's authenticator runs at most once; a handle, once held, is the one
\* every later access gets; a step that creates one object's handle leaves
\* the other object's handle as it was.
C9_ConnectionMemoization ==
    /\ \A o \in Objects : _conn[o] = None /\ authCalls[o] = 0
    /\ [][ \A o \in Objects :
             /\ authCalls'[o] <= 1
             /\ (_conn[o] # None => _conn'[o] = _conn[o])
             /\ (authCalls'[o] # authCalls[o] =>
                    \A q \in Objects \ {o} : _conn'[q] = _conn[q]) ]_vars

\* both handles exist and a retry pass keeps using them
C9_Witness ==
    /\ authCalls["ec2"] = 1
    /\ authCalls["s3"] = 1
    /\ depth = 2
    /\ pc = "rif_check"
    /\ Count("get_all_images") >= 5
    /\ Count("get_bucket") >= 4

\* C10. Guarded deregistration: in a remove_image(id, pretend = FALSE) that
\* found the image at every lookup, deregister_image is issued at most once,
\* only when the latest verification enumeration was empty, and as the last
\* remote call: never after a lookup, enumeration or delete that raised.
C10_DeregisterGuard ==
    ( /\ op = "remove_image"
      /\ ~pretend
      /\ Resolvable
      /\ Issued("deregister_image") )
    => ( /\ Count("deregister_image") = 1
         /\ verified = "empty"
         /\ calls[Len(calls)][1] = "deregister_image"
         /\ error \in {"none", "EC2ResponseError"}
         /\ pc = "terminated" )

\* deregistration after a first pass left files behind and a retry cleared them
C10_Witness ==
    /\ op = "remove_image"
    /\ ~pretend
    /\ Resolvable
    /\ Issued("deregister_image")
    /\ Logged("recursing")
    /\ verified = "empty"
    /\ error = "none"

====
